---- MODULE Spec2Model ----
(***************************************************************************)
(* Model of the FreelanceBountyPlatform contract                           *)
(* (src/contracts/bounty_board/src/lib.rs).                                *)
(*                                                                         *)
(* The contract's instance storage is modelled key family by key family:   *)
(*   developers         DataKey::Developer(Address)  -> DeveloperProfile   *)
(*   bounties           DataKey::Bounty(u64)         -> Bounty             *)
(*   counter            DataKey::BountyCounter       (0 when absent)       *)
(*   companyBounties    DataKey::CompanyBounties(a)  (<<>> when absent)    *)
(*   developerBounties  DataKey::DeveloperBounties(a)(<<>> when absent)    *)
(* balances is the ledger of the token contracts the contract calls.       *)
(* Every entry point is an operator from (storage and ledger, arguments)   *)
(* to (storage and ledger, result); a panic anywhere in an entry point     *)
(* makes the host discard every write of the invocation.                   *)
(***************************************************************************)
EXTENDS Integers, Sequences, FiniteSets, TLC

VARIABLES developers, bounties, counter, companyBounties, developerBounties,
          balances, debited, released, refunded, rateCalls

vars == <<developers, bounties, counter, companyBounties, developerBounties,
          balances, debited, released, refunded, rateCalls>>

(***************************************************************************)
(* Bounds and input domains.                                               *)
(***************************************************************************)
MaxBounties == 2
MaxRateCalls == 1
InitBalance == 2
\* 2^16: a u32 is below Radix16 * Radix16.
Radix16 == 65536

Addr == {"a1", "a2"}
Contract == "contract"
Accounts == Addr \cup {Contract}
Tokens == {"T1", "T2"}
Amounts == {-1, 1, 2}
SkillLists == {<<"rust">>}
RequiredSkills == {<<"rust">>}
Bios == {"bio"}
Titles == {"title"}
Descriptions == {"desc"}
Deadlines == {0}
Timestamps == {0}
Ratings == {90}
BountyIds == 1..(MaxBounties + 1)

None == "None"

Open == "Open"
Assigned == "Assigned"
Submitted == "Submitted"
Completed == "Completed"
Disputed == "Disputed"
Cancelled == "Cancelled"
BountyStatus == {Open, Assigned, Submitted, Completed, Disputed, Cancelled}

Ok == "Ok"
Unauthorized == "Unauthorized"
NotFound == "NotFound"
NotRegistered == "NotRegistered"
NotAssigned == "NotAssigned"
InvalidState == "InvalidState"
TransferFailed == "TransferFailed"
Overflow == "Overflow"

(***************************************************************************)
(* The storage and ledger as one value, and the two ways an entry point    *)
(* ends.                                                                   *)
(***************************************************************************)
State == [developers |-> developers, bounties |-> bounties, counter |-> counter,
          companyBounties |-> companyBounties,
          developerBounties |-> developerBounties, balances |-> balances]

\* A panic: the host rolls the invocation back to the state s it started in.
Panic(s, err) == [s |-> s, res |-> err, ret |-> None]

Return(s, ret) == [s |-> s, res |-> Ok, ret |-> ret]

\* Address::require_auth: the invocation carries the authority of signer only.
require_auth(signer, principal) == signer = principal

\* storage().instance().get(&DataKey::Developer(a)) is Some.
HasDeveloper(s, a) == a \in DOMAIN s.developers

\* storage().instance().get(&DataKey::Bounty(id)) is Some.
HasBounty(s, id) == id \in DOMAIN s.bounties

\* token::Client::transfer: rejects a negative amount, a balance too small
\* and whatever else the token contract refuses (tokenOk = FALSE); the
\* debit is applied before the credit.
TransferOk(bal, token, from, amount, tokenOk) ==
    /\ tokenOk
    /\ amount >= 0
    /\ bal[token][from] >= amount

Transfer(bal, token, from, to, amount) ==
    LET b1 == [bal EXCEPT ![token][from] = @ - amount]
    IN  [b1 EXCEPT ![token][to] = @ + amount]

(***************************************************************************)
(* Developer registry.                                                     *)
(***************************************************************************)
\* register_developer that keeps the history of an existing profile (a merge).
register_developer_Merges(s, signer, developer, skills, bio) ==
    IF ~require_auth(signer, developer) THEN Panic(s, Unauthorized)
    ELSE LET had == HasDeveloper(s, developer)
             profile == [address |-> developer, skills |-> skills, bio |-> bio,
                         completed_bounties |->
                             IF had THEN s.developers[developer].completed_bounties ELSE 0,
                         rating |-> IF had THEN s.developers[developer].rating ELSE 0]
             devs == [a \in DOMAIN s.developers \cup {developer} |->
                         IF a = developer THEN profile ELSE s.developers[a]]
         IN  Return([s EXCEPT !.developers = devs], None)

register_developer(s, signer, developer, skills, bio) ==
    IF ~require_auth(signer, developer) THEN Panic(s, Unauthorized)
    ELSE LET profile == [address |-> developer, skills |-> skills, bio |-> bio,
                         completed_bounties |-> 0, rating |-> 0]
             devs == [a \in DOMAIN s.developers \cup {developer} |->
                         IF a = developer THEN profile ELSE s.developers[a]]
         IN  Return([s EXCEPT !.developers = devs], None)

\* update_skills that writes a fresh profile with the new skills, as
\* register_developer does, instead of changing the stored one.
update_skills_Resets(s, signer, developer, skills) ==
    IF ~require_auth(signer, developer) THEN Panic(s, Unauthorized)
    ELSE IF ~HasDeveloper(s, developer) THEN Panic(s, NotRegistered)
    ELSE Return([s EXCEPT !.developers[developer] =
                    [address |-> developer, skills |-> skills, bio |-> @.bio,
                     completed_bounties |-> 0, rating |-> 0]], None)

update_skills(s, signer, developer, skills) ==
    IF ~require_auth(signer, developer) THEN Panic(s, Unauthorized)
    ELSE IF ~HasDeveloper(s, developer) THEN Panic(s, NotRegistered)
    ELSE Return([s EXCEPT !.developers[developer].skills = skills], None)

get_developer(s, developer) ==
    Return(s, IF HasDeveloper(s, developer) THEN s.developers[developer] ELSE None)

(***************************************************************************)
(* Bounty lifecycle.                                                       *)
(***************************************************************************)
\* create_bounty that stores a fresh company index holding only the new id
\* instead of pushing onto the stored one (lines 139-142).
create_bounty_IndexReplaced(s, signer, company, title, description, required_skills, payment_amount, payment_token, deadline, now, tokenOk) ==
    IF ~require_auth(signer, company) THEN Panic(s, Unauthorized)
    ELSE IF ~TransferOk(s.balances, payment_token, company, payment_amount, tokenOk)
    THEN Panic(s, TransferFailed)
    ELSE LET bal == Transfer(s.balances, payment_token, company, Contract, payment_amount)
             bounty_id == s.counter + 1
             bounty == [id |-> bounty_id, company |-> company, title |-> title,
                        description |-> description,
                        required_skills |-> required_skills,
                        payment_amount |-> payment_amount,
                        payment_token |-> payment_token,
                        status |-> Open, assigned_developer |-> None,
                        created_at |-> now, deadline |-> deadline]
             bs == [i \in DOMAIN s.bounties \cup {bounty_id} |->
                       IF i = bounty_id THEN bounty ELSE s.bounties[i]]
         IN  Return([s EXCEPT !.balances = bal, !.counter = bounty_id,
                              !.bounties = bs,
                              !.companyBounties[company] = <<bounty_id>>],
                    bounty_id)

\* create_bounty that writes the counter first and, when the transfer
\* fails, reports the failure without undoing that write.
create_bounty_CounterKept(s, signer, company, title, description, required_skills, payment_amount, payment_token, deadline, now, tokenOk) ==
    IF ~require_auth(signer, company) THEN Panic(s, Unauthorized)
    ELSE IF ~TransferOk(s.balances, payment_token, company, payment_amount, tokenOk)
    THEN [s |-> [s EXCEPT !.counter = @ + 1], res |-> TransferFailed, ret |-> None]
    ELSE LET bal == Transfer(s.balances, payment_token, company, Contract, payment_amount)
             bounty_id == s.counter + 1
             bounty == [id |-> bounty_id, company |-> company, title |-> title,
                        description |-> description,
                        required_skills |-> required_skills,
                        payment_amount |-> payment_amount,
                        payment_token |-> payment_token,
                        status |-> Open, assigned_developer |-> None,
                        created_at |-> now, deadline |-> deadline]
             bs == [i \in DOMAIN s.bounties \cup {bounty_id} |->
                       IF i = bounty_id THEN bounty ELSE s.bounties[i]]
         IN  Return([s EXCEPT !.balances = bal, !.counter = bounty_id,
                              !.bounties = bs,
                              !.companyBounties[company] = Append(@, bounty_id)],
                    bounty_id)

\* create_bounty that never stores the new counter (line 120 left out).
create_bounty_CounterNotStored(s, signer, company, title, description, required_skills, payment_amount, payment_token, deadline, now, tokenOk) ==
    IF ~require_auth(signer, company) THEN Panic(s, Unauthorized)
    ELSE IF ~TransferOk(s.balances, payment_token, company, payment_amount, tokenOk)
    THEN Panic(s, TransferFailed)
    ELSE LET bal == Transfer(s.balances, payment_token, company, Contract, payment_amount)
             bounty_id == s.counter + 1
             bounty == [id |-> bounty_id, company |-> company, title |-> title,
                        description |-> description,
                        required_skills |-> required_skills,
                        payment_amount |-> payment_amount,
                        payment_token |-> payment_token,
                        status |-> Open, assigned_developer |-> None,
                        created_at |-> now, deadline |-> deadline]
             bs == [i \in DOMAIN s.bounties \cup {bounty_id} |->
                       IF i = bounty_id THEN bounty ELSE s.bounties[i]]
         IN  Return([s EXCEPT !.balances = bal, !.bounties = bs,
                              !.companyBounties[company] = Append(@, bounty_id)],
                    bounty_id)

create_bounty(s, signer, company, title, description, required_skills, payment_amount, payment_token, deadline, now, tokenOk) ==
    IF ~require_auth(signer, company) THEN Panic(s, Unauthorized)
    ELSE IF ~TransferOk(s.balances, payment_token, company, payment_amount, tokenOk)
    THEN Panic(s, TransferFailed)
    ELSE LET bal == Transfer(s.balances, payment_token, company, Contract, payment_amount)
             bounty_id == s.counter + 1
             bounty == [id |-> bounty_id, company |-> company, title |-> title,
                        description |-> description,
                        required_skills |-> required_skills,
                        payment_amount |-> payment_amount,
                        payment_token |-> payment_token,
                        status |-> Open, assigned_developer |-> None,
                        created_at |-> now, deadline |-> deadline]
             bs == [i \in DOMAIN s.bounties \cup {bounty_id} |->
                       IF i = bounty_id THEN bounty ELSE s.bounties[i]]
         IN  Return([s EXCEPT !.balances = bal, !.counter = bounty_id,
                              !.bounties = bs,
                              !.companyBounties[company] = Append(@, bounty_id)],
                    bounty_id)

\* assign_bounty without the registration check (lines 161-165 left out).
assign_bounty_NoRegistrationCheck(s, signer, bounty_id, developer) ==
    IF ~require_auth(signer, developer) THEN Panic(s, Unauthorized)
    ELSE IF ~HasBounty(s, bounty_id) THEN Panic(s, NotFound)
    ELSE IF s.bounties[bounty_id].status # Open THEN Panic(s, InvalidState)
    ELSE Return([s EXCEPT !.bounties[bounty_id].status = Assigned,
                          !.bounties[bounty_id].assigned_developer = developer,
                          !.developerBounties[developer] = Append(@, bounty_id)],
                None)

\* assign_bounty without the status check (line 159 left out).
assign_bounty_NoStatusCheck(s, signer, bounty_id, developer) ==
    IF ~require_auth(signer, developer) THEN Panic(s, Unauthorized)
    ELSE IF ~HasBounty(s, bounty_id) THEN Panic(s, NotFound)
    ELSE IF ~HasDeveloper(s, developer) THEN Panic(s, NotRegistered)
    ELSE Return([s EXCEPT !.bounties[bounty_id].status = Assigned,
                          !.bounties[bounty_id].assigned_developer = developer,
                          !.developerBounties[developer] = Append(@, bounty_id)],
                None)

assign_bounty(s, signer, bounty_id, developer) ==
    IF ~require_auth(signer, developer) THEN Panic(s, Unauthorized)
    ELSE IF ~HasBounty(s, bounty_id) THEN Panic(s, NotFound)
    ELSE IF s.bounties[bounty_id].status # Open THEN Panic(s, InvalidState)
    ELSE IF ~HasDeveloper(s, developer) THEN Panic(s, NotRegistered)
    ELSE Return([s EXCEPT !.bounties[bounty_id].status = Assigned,
                          !.bounties[bounty_id].assigned_developer = developer,
                          !.developerBounties[developer] = Append(@, bounty_id)],
                None)

\* submit_work with the status check before the developer check.
submit_work_StatusFirst(s, signer, bounty_id, developer) ==
    IF ~require_auth(signer, developer) THEN Panic(s, Unauthorized)
    ELSE IF ~HasBounty(s, bounty_id) THEN Panic(s, NotFound)
    ELSE IF s.bounties[bounty_id].status # Assigned THEN Panic(s, InvalidState)
    ELSE IF s.bounties[bounty_id].assigned_developer # developer
    THEN Panic(s, NotAssigned)
    ELSE Return([s EXCEPT !.bounties[bounty_id].status = Submitted], None)

submit_work(s, signer, bounty_id, developer) ==
    IF ~require_auth(signer, developer) THEN Panic(s, Unauthorized)
    ELSE IF ~HasBounty(s, bounty_id) THEN Panic(s, NotFound)
    ELSE IF s.bounties[bounty_id].assigned_developer # developer
    THEN Panic(s, NotAssigned)
    ELSE IF s.bounties[bounty_id].status # Assigned THEN Panic(s, InvalidState)
    ELSE Return([s EXCEPT !.bounties[bounty_id].status = Submitted], None)

\* approve_and_release without the status check (lines 217-220 left out).
approve_and_release_NoStatusCheck(s, signer, bounty_id, company, tokenOk) ==
    IF ~require_auth(signer, company) THEN Panic(s, Unauthorized)
    ELSE IF ~HasBounty(s, bounty_id) THEN Panic(s, NotFound)
    ELSE LET bounty == s.bounties[bounty_id]
             developer == bounty.assigned_developer
         IN  IF bounty.company # company THEN Panic(s, Unauthorized)
             ELSE IF developer = None THEN Panic(s, NotAssigned)
             ELSE IF ~TransferOk(s.balances, bounty.payment_token, Contract,
                                 bounty.payment_amount, tokenOk)
             THEN Panic(s, TransferFailed)
             ELSE LET bal == Transfer(s.balances, bounty.payment_token, Contract,
                                      developer, bounty.payment_amount)
                      s1 == [s EXCEPT !.balances = bal,
                                      !.bounties[bounty_id].status = Completed]
                  IN  IF ~HasDeveloper(s1, developer) THEN Panic(s, NotRegistered)
                      ELSE Return([s1 EXCEPT
                                     !.developers[developer].completed_bounties = @ + 1],
                                  None)

\* approve_and_release that leaves completed_bounties alone (lines 238-240 left out).
approve_and_release_NoCount(s, signer, bounty_id, company, tokenOk) ==
    IF ~require_auth(signer, company) THEN Panic(s, Unauthorized)
    ELSE IF ~HasBounty(s, bounty_id) THEN Panic(s, NotFound)
    ELSE LET bounty == s.bounties[bounty_id]
             developer == bounty.assigned_developer
         IN  IF bounty.company # company THEN Panic(s, Unauthorized)
             ELSE IF bounty.status # Submitted THEN Panic(s, InvalidState)
             ELSE IF developer = None THEN Panic(s, NotAssigned)
             ELSE IF ~TransferOk(s.balances, bounty.payment_token, Contract,
                                 bounty.payment_amount, tokenOk)
             THEN Panic(s, TransferFailed)
             ELSE LET bal == Transfer(s.balances, bounty.payment_token, Contract,
                                      developer, bounty.payment_amount)
                      s1 == [s EXCEPT !.balances = bal,
                                      !.bounties[bounty_id].status = Completed]
                  IN  IF ~HasDeveloper(s1, developer) THEN Panic(s, NotRegistered)
                      ELSE Return(s1, None)

approve_and_release(s, signer, bounty_id, company, tokenOk) ==
    IF ~require_auth(signer, company) THEN Panic(s, Unauthorized)
    ELSE IF ~HasBounty(s, bounty_id) THEN Panic(s, NotFound)
    ELSE LET bounty == s.bounties[bounty_id]
             developer == bounty.assigned_developer
         IN  IF bounty.company # company THEN Panic(s, Unauthorized)
             ELSE IF bounty.status # Submitted THEN Panic(s, InvalidState)
             ELSE IF developer = None THEN Panic(s, NotAssigned)
             ELSE IF ~TransferOk(s.balances, bounty.payment_token, Contract,
                                 bounty.payment_amount, tokenOk)
             THEN Panic(s, TransferFailed)
             ELSE LET bal == Transfer(s.balances, bounty.payment_token, Contract,
                                      developer, bounty.payment_amount)
                      s1 == [s EXCEPT !.balances = bal,
                                      !.bounties[bounty_id].status = Completed]
                  IN  IF ~HasDeveloper(s1, developer) THEN Panic(s, NotRegistered)
                      ELSE Return([s1 EXCEPT
                                     !.developers[developer].completed_bounties = @ + 1],
                                  None)

\* dispute_bounty without the caller check (line 258 left out).
dispute_bounty_NoCallerCheck(s, signer, bounty_id, caller) ==
    IF ~require_auth(signer, caller) THEN Panic(s, Unauthorized)
    ELSE IF ~HasBounty(s, bounty_id) THEN Panic(s, NotFound)
    ELSE Return([s EXCEPT !.bounties[bounty_id].status = Disputed], None)

\* dispute_bounty that also refunds the company.
dispute_bounty_Refunds(s, signer, bounty_id, caller) ==
    IF ~require_auth(signer, caller) THEN Panic(s, Unauthorized)
    ELSE IF ~HasBounty(s, bounty_id) THEN Panic(s, NotFound)
    ELSE LET bounty == s.bounties[bounty_id]
             is_authorized == bounty.company = caller
                              \/ bounty.assigned_developer = caller
         IN  IF ~is_authorized THEN Panic(s, Unauthorized)
             ELSE IF ~TransferOk(s.balances, bounty.payment_token, Contract,
                                 bounty.payment_amount, TRUE)
             THEN Panic(s, TransferFailed)
             ELSE Return([s EXCEPT !.bounties[bounty_id].status = Disputed,
                                   !.balances = Transfer(s.balances, bounty.payment_token,
                                                         Contract, bounty.company,
                                                         bounty.payment_amount)],
                         None)

dispute_bounty(s, signer, bounty_id, caller) ==
    IF ~require_auth(signer, caller) THEN Panic(s, Unauthorized)
    ELSE IF ~HasBounty(s, bounty_id) THEN Panic(s, NotFound)
    ELSE LET bounty == s.bounties[bounty_id]
             is_authorized == bounty.company = caller
                              \/ bounty.assigned_developer = caller
         IN  IF ~is_authorized THEN Panic(s, Unauthorized)
             ELSE Return([s EXCEPT !.bounties[bounty_id].status = Disputed], None)

\* cancel_bounty without the status check (lines 275-278 left out).
cancel_bounty_NoStatusCheck(s, signer, bounty_id, company, tokenOk) ==
    IF ~require_auth(signer, company) THEN Panic(s, Unauthorized)
    ELSE IF ~HasBounty(s, bounty_id) THEN Panic(s, NotFound)
    ELSE LET bounty == s.bounties[bounty_id]
         IN  IF bounty.company # company THEN Panic(s, Unauthorized)
             ELSE IF ~TransferOk(s.balances, bounty.payment_token, Contract,
                                 bounty.payment_amount, tokenOk)
             THEN Panic(s, TransferFailed)
             ELSE LET bal == Transfer(s.balances, bounty.payment_token, Contract,
                                      company, bounty.payment_amount)
                  IN  Return([s EXCEPT !.balances = bal,
                                       !.bounties[bounty_id].status = Cancelled],
                             None)

\* cancel_bounty without the refund transfer (lines 280-286 left out).
cancel_bounty_NoRefund(s, signer, bounty_id, company, tokenOk) ==
    IF ~require_auth(signer, company) THEN Panic(s, Unauthorized)
    ELSE IF ~HasBounty(s, bounty_id) THEN Panic(s, NotFound)
    ELSE LET bounty == s.bounties[bounty_id]
         IN  IF bounty.company # company THEN Panic(s, Unauthorized)
             ELSE IF bounty.status # Open THEN Panic(s, InvalidState)
             ELSE Return([s EXCEPT !.bounties[bounty_id].status = Cancelled], None)

cancel_bounty(s, signer, bounty_id, company, tokenOk) ==
    IF ~require_auth(signer, company) THEN Panic(s, Unauthorized)
    ELSE IF ~HasBounty(s, bounty_id) THEN Panic(s, NotFound)
    ELSE LET bounty == s.bounties[bounty_id]
         IN  IF bounty.company # company THEN Panic(s, Unauthorized)
             ELSE IF bounty.status # Open THEN Panic(s, InvalidState)
             ELSE IF ~TransferOk(s.balances, bounty.payment_token, Contract,
                                 bounty.payment_amount, tokenOk)
             THEN Panic(s, TransferFailed)
             ELSE LET bal == Transfer(s.balances, bounty.payment_token, Contract,
                                      company, bounty.payment_amount)
                  IN  Return([s EXCEPT !.balances = bal,
                                       !.bounties[bounty_id].status = Cancelled],
                             None)

get_bounty(s, bounty_id) ==
    Return(s, IF HasBounty(s, bounty_id) THEN s.bounties[bounty_id] ELSE None)

get_company_bounties(s, company) == Return(s, s.companyBounties[company])

get_developer_bounties(s, developer) == Return(s, s.developerBounties[developer])

\* u32 arithmetic: x is in range iff x < 2^32, out of range values wrap
\* modulo 2^32 when the build has overflow checks off.
FitsU32(x) == x \div Radix16 < Radix16

WrapU32(x) == IF FitsU32(x) THEN x ELSE x % (Radix16 * Radix16)

\* rate_developer: on u32 overflow the build either panics (overflow checks
\* on) or wraps modulo 2^32 (overflow checks off).
\* rate_developer that stores the rating given instead of the running mean.
rate_developer_Overwrites(s, signer, bounty_id, company, rating, overflowChecks) ==
    IF ~require_auth(signer, company) THEN Panic(s, Unauthorized)
    ELSE IF ~HasBounty(s, bounty_id) THEN Panic(s, NotFound)
    ELSE LET bounty == s.bounties[bounty_id]
             developer == bounty.assigned_developer
         IN  IF bounty.company # company THEN Panic(s, Unauthorized)
             ELSE IF bounty.status # Completed THEN Panic(s, InvalidState)
             ELSE IF developer = None THEN Panic(s, NotAssigned)
             ELSE IF ~HasDeveloper(s, developer) THEN Panic(s, NotRegistered)
             ELSE Return([s EXCEPT !.developers[developer].rating = rating], None)

\* rate_developer that weighs the old rating by n instead of n - 1.
rate_developer_WeightsN(s, signer, bounty_id, company, rating, overflowChecks) ==
    IF ~require_auth(signer, company) THEN Panic(s, Unauthorized)
    ELSE IF ~HasBounty(s, bounty_id) THEN Panic(s, NotFound)
    ELSE LET bounty == s.bounties[bounty_id]
             developer == bounty.assigned_developer
         IN  IF bounty.company # company THEN Panic(s, Unauthorized)
             ELSE IF bounty.status # Completed THEN Panic(s, InvalidState)
             ELSE IF developer = None THEN Panic(s, NotAssigned)
             ELSE IF ~HasDeveloper(s, developer) THEN Panic(s, NotRegistered)
             ELSE LET dev_profile == s.developers[developer]
                      total_ratings == dev_profile.completed_bounties
                      product == dev_profile.rating * total_ratings
                      current_total == WrapU32(product)
                      sum == current_total + rating
                      overflows == total_ratings > 0
                                   /\ (~FitsU32(product) \/ ~FitsU32(sum))
                      new_rating == IF total_ratings > 0
                                    THEN WrapU32(sum) \div total_ratings
                                    ELSE rating
                  IN  IF overflows /\ overflowChecks THEN Panic(s, Overflow)
                      ELSE Return([s EXCEPT !.developers[developer].rating = new_rating],
                                  None)

rate_developer(s, signer, bounty_id, company, rating, overflowChecks) ==
    IF ~require_auth(signer, company) THEN Panic(s, Unauthorized)
    ELSE IF ~HasBounty(s, bounty_id) THEN Panic(s, NotFound)
    ELSE LET bounty == s.bounties[bounty_id]
             developer == bounty.assigned_developer
         IN  IF bounty.company # company THEN Panic(s, Unauthorized)
             ELSE IF bounty.status # Completed THEN Panic(s, InvalidState)
             ELSE IF developer = None THEN Panic(s, NotAssigned)
             ELSE IF ~HasDeveloper(s, developer) THEN Panic(s, NotRegistered)
             ELSE LET dev_profile == s.developers[developer]
                      total_ratings == dev_profile.completed_bounties
                      product == dev_profile.rating * (total_ratings - 1)
                      current_total == WrapU32(product)
                      sum == current_total + rating
                      overflows == total_ratings > 0
                                   /\ (~FitsU32(product) \/ ~FitsU32(sum))
                      new_rating == IF total_ratings > 0
                                    THEN WrapU32(sum) \div total_ratings
                                    ELSE rating
                  IN  IF overflows /\ overflowChecks THEN Panic(s, Overflow)
                      ELSE Return([s EXCEPT !.developers[developer].rating = new_rating],
                                  None)

(***************************************************************************)
(* The state machine: one action per entry point.  debited, released and   *)
(* refunded count the successful create_bounty, approve_and_release and    *)
(* cancel_bounty calls per bounty id; rateCalls counts the successful      *)
(* rate_developer calls.  A call that fails leaves every variable as it    *)
(* was.                                                                    *)
(***************************************************************************)
Init ==
    /\ developers = [a \in {} |-> None]
    /\ bounties = <<>>
    /\ counter = 0
    /\ companyBounties = [a \in Addr |-> <<>>]
    /\ developerBounties = [a \in Addr |-> <<>>]
    /\ balances = [t \in Tokens |-> [a \in Accounts |->
                      IF a = Contract THEN 0 ELSE InitBalance]]
    /\ debited = [i \in BountyIds |-> 0]
    /\ released = [i \in BountyIds |-> 0]
    /\ refunded = [i \in BountyIds |-> 0]
    /\ rateCalls = 0

Commit(r) ==
    /\ developers' = r.s.developers
    /\ bounties' = r.s.bounties
    /\ counter' = r.s.counter
    /\ companyBounties' = r.s.companyBounties
    /\ developerBounties' = r.s.developerBounties
    /\ balances' = r.s.balances

RegisterDeveloper ==
    \E signer \in Addr, developer \in Addr, skills \in SkillLists, bio \in Bios :
        LET r == register_developer(State, signer, developer, skills, bio)
        IN  /\ Commit(r)
            /\ UNCHANGED <<debited, released, refunded, rateCalls>>

UpdateSkills ==
    \E signer \in Addr, developer \in Addr, skills \in SkillLists :
        LET r == update_skills(State, signer, developer, skills)
        IN  /\ Commit(r)
            /\ UNCHANGED <<debited, released, refunded, rateCalls>>

GetDeveloper ==
    \E developer \in Addr :
        LET r == get_developer(State, developer)
        IN  /\ Commit(r)
            /\ UNCHANGED <<debited, released, refunded, rateCalls>>

CreateBounty ==
    /\ counter < MaxBounties
    /\ \E signer \in Addr, company \in Addr, title \in Titles,
          description \in Descriptions, required_skills \in RequiredSkills,
          payment_amount \in Amounts, payment_token \in Tokens,
          deadline \in Deadlines, now \in Timestamps, tokenOk \in BOOLEAN :
        LET r == create_bounty(State, signer, company, title, description,
                               required_skills, payment_amount, payment_token,
                               deadline, now, tokenOk)
        IN  /\ Commit(r)
            /\ debited' = IF r.res = Ok THEN [debited EXCEPT ![r.ret] = @ + 1]
                          ELSE debited
            /\ UNCHANGED <<released, refunded, rateCalls>>

AssignBounty ==
    \E signer \in Addr, bounty_id \in BountyIds, developer \in Addr :
        LET r == assign_bounty(State, signer, bounty_id, developer)
        IN  /\ Commit(r)
            /\ UNCHANGED <<debited, released, refunded, rateCalls>>

SubmitWork ==
    \E signer \in Addr, bounty_id \in BountyIds, developer \in Addr :
        LET r == submit_work(State, signer, bounty_id, developer)
        IN  /\ Commit(r)
            /\ UNCHANGED <<debited, released, refunded, rateCalls>>

ApproveAndRelease ==
    \E signer \in Addr, bounty_id \in BountyIds, company \in Addr,
       tokenOk \in BOOLEAN :
        LET r == approve_and_release(State, signer, bounty_id, company, tokenOk)
        IN  /\ Commit(r)
            /\ released' = IF r.res = Ok THEN [released EXCEPT ![bounty_id] = @ + 1]
                           ELSE released
            /\ UNCHANGED <<debited, refunded, rateCalls>>

DisputeBounty ==
    \E signer \in Addr, bounty_id \in BountyIds, caller \in Addr :
        LET r == dispute_bounty(State, signer, bounty_id, caller)
        IN  /\ Commit(r)
            /\ UNCHANGED <<debited, released, refunded, rateCalls>>

CancelBounty ==
    \E signer \in Addr, bounty_id \in BountyIds, company \in Addr,
       tokenOk \in BOOLEAN :
        LET r == cancel_bounty(State, signer, bounty_id, company, tokenOk)
        IN  /\ Commit(r)
            /\ refunded' = IF r.res = Ok THEN [refunded EXCEPT ![bounty_id] = @ + 1]
                           ELSE refunded
            /\ UNCHANGED <<debited, released, rateCalls>>

GetBounty ==
    \E bounty_id \in BountyIds :
        LET r == get_bounty(State, bounty_id)
        IN  /\ Commit(r)
            /\ UNCHANGED <<debited, released, refunded, rateCalls>>

GetCompanyBounties ==
    \E company \in Addr :
        LET r == get_company_bounties(State, company)
        IN  /\ Commit(r)
            /\ UNCHANGED <<debited, released, refunded, rateCalls>>

GetDeveloperBounties ==
    \E developer \in Addr :
        LET r == get_developer_bounties(State, developer)
        IN  /\ Commit(r)
            /\ UNCHANGED <<debited, released, refunded, rateCalls>>

RateDeveloper ==
    \E signer \in Addr, bounty_id \in BountyIds, company \in Addr,
       rating \in Ratings, overflowChecks \in BOOLEAN :
        LET r == rate_developer(State, signer, bounty_id, company, rating,
                                overflowChecks)
        IN  /\ r.res = Ok => rateCalls < MaxRateCalls
            /\ Commit(r)
            /\ rateCalls' = IF r.res = Ok THEN rateCalls + 1 ELSE rateCalls
            /\ UNCHANGED <<debited, released, refunded>>

Next ==
    \/ RegisterDeveloper
    \/ UpdateSkills
    \/ GetDeveloper
    \/ CreateBounty
    \/ AssignBounty
    \/ SubmitWork
    \/ ApproveAndRelease
    \/ DisputeBounty
    \/ CancelBounty
    \/ GetBounty
    \/ GetCompanyBounties
    \/ GetDeveloperBounties
    \/ RateDeveloper

Spec == Init /\ [][Next]_vars

(***************************************************************************)
(* The same state machine with the registry's inputs widened (two skill    *)
(* lists, ratings of 0, 90 and 101) and the escrow's narrowed to one token *)
(* and one amount.                                                         *)
(***************************************************************************)
RegistrySkillLists == {<<>>, <<"rust">>}
RegistryBios == {"bio"}
RegistryRatings == {0, 90, 101}
RegistryTokens == {"T1"}
RegistryAmounts == {1}

RegisterDeveloperR ==
    \E signer \in Addr, developer \in Addr, skills \in RegistrySkillLists,
       bio \in RegistryBios :
        LET r == register_developer(State, signer, developer, skills, bio)
        IN  /\ Commit(r)
            /\ UNCHANGED <<debited, released, refunded, rateCalls>>

UpdateSkillsR ==
    \E signer \in Addr, developer \in Addr, skills \in RegistrySkillLists :
        LET r == update_skills(State, signer, developer, skills)
        IN  /\ Commit(r)
            /\ UNCHANGED <<debited, released, refunded, rateCalls>>

CreateBountyR ==
    /\ counter < MaxBounties
    /\ \E signer \in Addr, company \in Addr, title \in Titles,
          description \in Descriptions, required_skills \in RequiredSkills,
          payment_amount \in RegistryAmounts, payment_token \in RegistryTokens,
          deadline \in Deadlines, now \in Timestamps, tokenOk \in BOOLEAN :
        LET r == create_bounty(State, signer, company, title, description,
                               required_skills, payment_amount, payment_token,
                               deadline, now, tokenOk)
        IN  /\ Commit(r)
            /\ debited' = IF r.res = Ok THEN [debited EXCEPT ![r.ret] = @ + 1]
                          ELSE debited
            /\ UNCHANGED <<released, refunded, rateCalls>>

RateDeveloperR ==
    \E signer \in Addr, bounty_id \in BountyIds, company \in Addr,
       rating \in RegistryRatings, overflowChecks \in BOOLEAN :
        LET r == rate_developer(State, signer, bounty_id, company, rating,
                                overflowChecks)
        IN  /\ r.res = Ok => rateCalls < MaxRateCalls
            /\ Commit(r)
            /\ rateCalls' = IF r.res = Ok THEN rateCalls + 1 ELSE rateCalls
            /\ UNCHANGED <<debited, released, refunded>>

NextRegistry ==
    \/ RegisterDeveloperR
    \/ UpdateSkillsR
    \/ GetDeveloper
    \/ CreateBountyR
    \/ AssignBounty
    \/ SubmitWork
    \/ ApproveAndRelease
    \/ DisputeBounty
    \/ CancelBounty
    \/ GetBounty
    \/ GetCompanyBounties
    \/ GetDeveloperBounties
    \/ RateDeveloperR

SpecRegistry == Init /\ [][NextRegistry]_vars

(***************************************************************************)
(* Helpers of the properties.                                              *)
(***************************************************************************)
Terminal == {Completed, Cancelled, Disputed}

\* Sum of payment_amount over the bounties ids of the bounty table bs.
RECURSIVE SumAmounts(_, _)
SumAmounts(ids, bs) ==
    IF ids = {} THEN 0
    ELSE LET i == CHOOSE x \in ids : TRUE
         IN  bs[i].payment_amount + SumAmounts(ids \ {i}, bs)

\* The bounties in token t that neither approve_and_release nor
\* cancel_bounty has succeeded on.
Outstanding(t) ==
    {i \in DOMAIN bounties : /\ bounties[i].payment_token = t
                             /\ released[i] = 0
                             /\ refunded[i] = 0}

\* A call that fails leaves storage and ledger as they were.
Atomic(r) == r.res # Ok => r.s = State

(***************************************************************************)
(* C1.  Once a bounty's status is Completed, Cancelled or Disputed, no     *)
(* operation changes that bounty's status again (dispute_bounty moves a    *)
(* bounty to Disputed only from Open, Assigned or Submitted).              *)
(* dispute_bounty has no status check: it moves a Completed or Cancelled   *)
(* bounty to Disputed, so this is violated.                                *)
(***************************************************************************)
C1_TerminalStatusFrozen ==
    [][\A i \in DOMAIN bounties :
          bounties[i].status \in Terminal
              => bounties'[i].status = bounties[i].status]_vars

(***************************************************************************)
(* C2.  For every token, the custody balance equals the sum of             *)
(* payment_amount over the bounties created in that token on which neither *)
(* approve_and_release nor cancel_bounty has yet succeeded.                *)
(***************************************************************************)
C2_CustodyEqualsOutstanding ==
    \A t \in Tokens :
        balances[t][Contract] = SumAmounts(Outstanding(t), bounties)

\* One bounty paid out while another one in the same token is still held.
C2_Witness ==
    \E i, j \in DOMAIN bounties :
        /\ bounties[i].payment_token = bounties[j].payment_token
        /\ released[i] = 1
        /\ j \in Outstanding(bounties[j].payment_token)
        /\ bounties[j].status = Disputed
        /\ balances[bounties[j].payment_token][Contract] = bounties[j].payment_amount

(***************************************************************************)
(* C3.  payment_amount is debited from the company exactly once, by the    *)
(* create_bounty that made the bounty, and leaves custody at most once:    *)
(* approve_and_release and cancel_bounty never both succeed on a bounty    *)
(* and neither succeeds twice; a Completed bounty has been paid exactly    *)
(* once, to its assigned developer, and a Cancelled bounty has been        *)
(* refunded exactly once, to its company.  The ledger agrees: every        *)
(* account holds its initial balance, less what it escrowed, plus what it  *)
(* was refunded as company and what it was paid as developer.              *)
(***************************************************************************)
Escrowed(a, t) ==
    {i \in DOMAIN bounties : bounties[i].company = a /\ bounties[i].payment_token = t}

RefundedTo(a, t) == {i \in Escrowed(a, t) : refunded[i] = 1}

PaidTo(a, t) ==
    {i \in DOMAIN bounties : /\ bounties[i].assigned_developer = a
                             /\ bounties[i].payment_token = t
                             /\ released[i] = 1}

C3_FundsMoveOnce ==
    /\ \A i \in BountyIds :
          /\ debited[i] = (IF i \in DOMAIN bounties THEN 1 ELSE 0)
          /\ released[i] + refunded[i] <= 1
          /\ i \notin DOMAIN bounties => released[i] + refunded[i] = 0
    /\ \A i \in DOMAIN bounties :
          /\ bounties[i].status = Completed => released[i] = 1 /\ refunded[i] = 0
          /\ bounties[i].status = Cancelled => refunded[i] = 1 /\ released[i] = 0
    /\ \A a \in Addr, t \in Tokens :
          balances[t][a] = InitBalance - SumAmounts(Escrowed(a, t), bounties)
                              + SumAmounts(RefundedTo(a, t), bounties)
                              + SumAmounts(PaidTo(a, t), bounties)

\* One bounty paid to its developer and another refunded to its company,
\* both in the same token.
C3_Witness ==
    \E i, j \in DOMAIN bounties :
        /\ bounties[i].status = Completed
        /\ bounties[j].status = Cancelled
        /\ bounties[i].payment_token = bounties[j].payment_token
        /\ bounties[i].company # bounties[i].assigned_developer
        /\ released[i] = 1 /\ refunded[j] = 1

(***************************************************************************)
(* C4.  Whenever a bounty's status is Disputed, its payment_amount is      *)
(* still in custody: it has been neither paid to the developer nor         *)
(* refunded to the company.  dispute_bounty accepts a Completed or a       *)
(* Cancelled bounty (see C1), whose funds have left custody, so this is    *)
(* violated.                                                               *)
(***************************************************************************)
C4_DisputedFundsHeld ==
    \A i \in DOMAIN bounties :
        bounties[i].status = Disputed
            => /\ released[i] = 0
               /\ refunded[i] = 0
               /\ balances[bounties[i].payment_token][Contract]
                      >= bounties[i].payment_amount

(***************************************************************************)
(* C5.  approve_and_release and cancel_bounty succeed only when the caller *)
(* is bounty.company, submit_work only when the caller is the assigned     *)
(* developer, dispute_bounty only when the caller is the company or the    *)
(* assigned developer (only the company when no developer is assigned);   *)
(* any other caller is rejected and nothing is changed.  The caller is the *)
(* signer of the invocation, who must also be the principal passed in.     *)
(***************************************************************************)
\* r succeeded only if who is one of the principals allowed; otherwise it
\* was rejected and changed nothing.
OnlyBy(r, signer, principal, allowed) ==
    IF signer = principal /\ signer \in allowed
    THEN TRUE
    ELSE r.res \in {Unauthorized, NotAssigned} /\ r.s = State

C5_OnlyDesignatedPrincipal ==
    \A i \in DOMAIN bounties, signer \in Addr, p \in Addr, tokenOk \in BOOLEAN :
        LET b == bounties[i]
        IN  /\ OnlyBy(approve_and_release(State, signer, i, p, tokenOk),
                      signer, p, {b.company})
            /\ OnlyBy(cancel_bounty(State, signer, i, p, tokenOk),
                      signer, p, {b.company})
            /\ OnlyBy(submit_work(State, signer, i, p),
                      signer, p, {b.assigned_developer} \ {None})
            /\ OnlyBy(dispute_bounty(State, signer, i, p),
                      signer, p, {b.company, b.assigned_developer} \ {None})

\* A Submitted bounty of company c and developer d, c # d: d's approval is
\* rejected, c's is accepted; a bounty without developer that only its
\* company can dispute.
C5_Witness ==
    \E i, j \in DOMAIN bounties :
        LET b == bounties[i]
            c == b.company
            d == b.assigned_developer
        IN  /\ b.status = Submitted
            /\ d # c
            /\ approve_and_release(State, d, i, d, TRUE).res = Unauthorized
            /\ approve_and_release(State, c, i, c, TRUE).res = Ok
            /\ dispute_bounty(State, d, i, d).res = Ok
            /\ bounties[j].assigned_developer = None
            /\ \E o \in Addr \ {bounties[j].company} :
                   dispute_bounty(State, o, j, o).res = Unauthorized

(***************************************************************************)
(* C6.  assign_bounty succeeds only when the bounty's status is Open and   *)
(* fails with InvalidState otherwise (also on a Cancelled bounty); once a  *)
(* bounty has left Open no operation makes its status Open again.          *)
(***************************************************************************)
C6_AssignOnlyFromOpen ==
    /\ [](\A i \in DOMAIN bounties, signer \in Addr, d \in Addr :
             LET r == assign_bounty(State, signer, i, d)
             IN  /\ r.res = Ok => bounties[i].status = Open
                 /\ signer = d /\ bounties[i].status # Open
                        => r.res = InvalidState /\ r.s = State)
    /\ [][\A i \in DOMAIN bounties :
             bounties[i].status # Open => bounties'[i].status # Open]_vars

\* A Cancelled bounty that a registered developer fails to take, next to
\* a bounty that has been assigned.
C6_Witness ==
    \E i, j \in DOMAIN bounties, d \in DOMAIN developers :
        /\ bounties[i].status = Cancelled
        /\ assign_bounty(State, d, i, d).res = InvalidState
        /\ bounties[j].status = Assigned
        /\ bounties[j].assigned_developer = d

(***************************************************************************)
(* C7.  cancel_bounty by the bounty's company on a bounty whose status is  *)
(* not Open fails with InvalidState, moves no funds and changes nothing;   *)
(* a bounty that has been assigned never becomes Cancelled.                *)
(***************************************************************************)
C7_CancelOnlyFromOpen ==
    /\ [](\A i \in DOMAIN bounties, tokenOk \in BOOLEAN :
             LET c == bounties[i].company
                 r == cancel_bounty(State, c, i, c, tokenOk)
             IN  bounties[i].status # Open
                     => r.res = InvalidState /\ r.s = State)
    /\ [][\A i \in DOMAIN bounties :
             bounties[i].assigned_developer # None
                 => /\ bounties[i].status # Cancelled
                    /\ bounties'[i].status # Cancelled]_vars

\* An Assigned bounty, whose company's cancel_bounty is refused.
C7_Witness ==
    \E i \in DOMAIN bounties :
        LET c == bounties[i].company
        IN  /\ bounties[i].status = Assigned
            /\ refunded[i] = 0
            /\ cancel_bounty(State, c, i, c, TRUE).res = InvalidState

(***************************************************************************)
(* C8.  submit_work on an existing bounty by a principal other than the    *)
(* bounty's assigned developer (the company included, and anyone when no   *)
(* developer is assigned) fails with NotAssigned whatever the status and   *)
(* changes nothing; only the assigned developer meets the status check.    *)
(***************************************************************************)
C8_SubmitNotAssigned ==
    \A i \in DOMAIN bounties, d \in Addr :
        LET b == bounties[i]
            r == submit_work(State, d, i, d)
        IN  /\ b.assigned_developer # d => r.res = NotAssigned /\ r.s = State
            /\ b.assigned_developer = d /\ b.status # Assigned
                   => r.res = InvalidState /\ r.s = State
            /\ b.assigned_developer = d /\ b.status = Assigned
                   => /\ r.res = Ok
                      /\ r.s = [State EXCEPT !.bounties[i].status = Submitted]

\* An Open bounty without developer and a Submitted one whose company is
\* not its developer: submit_work by the company answers NotAssigned on
\* both, and InvalidState to the developer of the second.
C8_Witness ==
    \E i, j \in DOMAIN bounties :
        LET c == bounties[j].company
            d == bounties[j].assigned_developer
        IN  /\ bounties[i].status = Open
            /\ submit_work(State, bounties[i].company, i, bounties[i].company).res
                   = NotAssigned
            /\ bounties[j].status = Submitted
            /\ c # d
            /\ submit_work(State, c, j, c).res = NotAssigned
            /\ submit_work(State, d, j, d).res = InvalidState

(***************************************************************************)
(* C9.  An operation that fails, for whatever reason (unknown bounty,      *)
(* wrong caller, wrong status, unregistered developer, failed token        *)
(* transfer), leaves the whole state as it was: bounty records,            *)
(* BountyCounter, developer profiles, both indexes and all balances.       *)
(***************************************************************************)
C9_FailureChangesNothing ==
    /\ \A signer \in Addr, p \in Addr, skills \in SkillLists :
          /\ \A bio \in Bios :
                Atomic(register_developer(State, signer, p, skills, bio))
          /\ Atomic(update_skills(State, signer, p, skills))
    /\ \A signer \in Addr, p \in Addr, title \in Titles,
          description \in Descriptions, required_skills \in RequiredSkills,
          payment_amount \in Amounts, payment_token \in Tokens,
          deadline \in Deadlines, now \in Timestamps, tokenOk \in BOOLEAN :
          Atomic(create_bounty(State, signer, p, title, description,
                               required_skills, payment_amount, payment_token,
                               deadline, now, tokenOk))
    /\ \A signer \in Addr, i \in BountyIds, p \in Addr :
          /\ Atomic(assign_bounty(State, signer, i, p))
          /\ Atomic(submit_work(State, signer, i, p))
          /\ Atomic(dispute_bounty(State, signer, i, p))
          /\ \A tokenOk \in BOOLEAN :
                /\ Atomic(approve_and_release(State, signer, i, p, tokenOk))
                /\ Atomic(cancel_bounty(State, signer, i, p, tokenOk))
          /\ \A rating \in Ratings, overflowChecks \in BOOLEAN :
                Atomic(rate_developer(State, signer, i, p, rating, overflowChecks))

\* A state where calls fail for each of the reasons: an Open bounty and a
\* Submitted one, an unregistered address, a company short of funds.
C9_Witness ==
    \E i, j \in DOMAIN bounties, u \in Addr \ DOMAIN developers :
        LET c == bounties[j].company
            d == bounties[j].assigned_developer
        IN  /\ bounties[i].status = Open
            /\ bounties[j].status = Submitted
            /\ assign_bounty(State, u, i, u).res = NotRegistered
            /\ assign_bounty(State, d, j, d).res = InvalidState
            /\ assign_bounty(State, d, counter + 1, d).res = NotFound
            /\ approve_and_release(State, c, j, c, FALSE).res = TransferFailed
            /\ cancel_bounty(State, bounties[i].company, i, bounties[i].company,
                             FALSE).res = TransferFailed
            /\ c # d /\ dispute_bounty(State, d, j, c).res = Unauthorized
            /\ \E t \in Tokens :
                  /\ balances[t][c] < 2
                  /\ create_bounty(State, c, c, "title", "desc", <<"rust">>, 2, t,
                                   0, 0, TRUE).res = TransferFailed

(***************************************************************************)
(* C10.  Token balances change only in a successful create_bounty,         *)
(* approve_and_release or cancel_bounty: register_developer,               *)
(* update_skills, assign_bounty, submit_work, dispute_bounty,              *)
(* rate_developer and the get_* queries leave every balance unchanged.     *)
(***************************************************************************)
KeepsBalances(r) == r.s.balances = balances

C10_OnlyEscrowMovesFunds ==
    /\ [](/\ \A signer \in Addr, p \in Addr, skills \in SkillLists :
                /\ \A bio \in Bios :
                      KeepsBalances(register_developer(State, signer, p, skills, bio))
                /\ KeepsBalances(update_skills(State, signer, p, skills))
          /\ \A signer \in Addr, i \in BountyIds, p \in Addr :
                /\ KeepsBalances(assign_bounty(State, signer, i, p))
                /\ KeepsBalances(submit_work(State, signer, i, p))
                /\ KeepsBalances(dispute_bounty(State, signer, i, p))
                /\ \A rating \in Ratings, overflowChecks \in BOOLEAN :
                      KeepsBalances(rate_developer(State, signer, i, p, rating,
                                                   overflowChecks))
          /\ \A i \in BountyIds, p \in Addr :
                /\ KeepsBalances(get_developer(State, p))
                /\ KeepsBalances(get_bounty(State, i))
                /\ KeepsBalances(get_company_bounties(State, p))
                /\ KeepsBalances(get_developer_bounties(State, p)))
    /\ [][balances' # balances
              => \/ debited' # debited
                 \/ released' # released
                 \/ refunded' # refunded]_vars

\* Funds in custody for a Submitted bounty that its developer disputes and
\* whose developer has been rated on another bounty.
C10_Witness ==
    \E i, j \in DOMAIN bounties :
        LET d == bounties[i].assigned_developer
        IN  /\ bounties[i].status = Submitted
            /\ balances[bounties[i].payment_token][Contract] > 0
            /\ dispute_bounty(State, d, i, d).res = Ok
            /\ bounties[j].status = Completed
            /\ rateCalls > 0


(***************************************************************************)
(* C11.  Bounty ids are allocated as counter + 1: the k-th successful      *)
(* create_bounty returns k, the stored record has id k, status Open and no *)
(* assigned developer, BountyCounter equals the number of stored bounties, *)
(* the stored ids are exactly 1..BountyCounter, and a failed create_bounty *)
(* consumes no id, so no id is reused or overwritten.                      *)
(***************************************************************************)
C11_IdsAreCounterPlusOne ==
    /\ DOMAIN bounties = 1..counter
    /\ \A i \in DOMAIN bounties : bounties[i].id = i
    /\ \A i \in BountyIds : debited[i] = (IF i <= counter THEN 1 ELSE 0)
    /\ \A signer \in Addr, p \in Addr, title \in Titles,
          description \in Descriptions, required_skills \in RequiredSkills,
          payment_amount \in Amounts, payment_token \in Tokens,
          deadline \in Deadlines, now \in Timestamps, tokenOk \in BOOLEAN :
          LET r == create_bounty(State, signer, p, title, description,
                                 required_skills, payment_amount, payment_token,
                                 deadline, now, tokenOk)
          IN  IF r.res = Ok
              THEN /\ r.ret = counter + 1
                   /\ r.s.counter = counter + 1
                   /\ DOMAIN r.s.bounties = 1..(counter + 1)
                   /\ r.s.bounties[r.ret].id = r.ret
                   /\ r.s.bounties[r.ret].status = Open
                   /\ r.s.bounties[r.ret].assigned_developer = None
                   /\ \A i \in DOMAIN bounties : r.s.bounties[i] = bounties[i]
              ELSE r.s.counter = counter /\ r.s.bounties = bounties

\* Two bounties made, the first one since completed, while the company of
\* the second can no longer fund a bounty of 2 in that token.
C11_Witness ==
    /\ counter = 2
    /\ bounties[1].status = Completed
    /\ bounties[2].status = Open
    /\ LET c == bounties[2].company
           t == bounties[2].payment_token
       IN  /\ balances[t][c] < 2
           /\ create_bounty(State, c, c, "title", "desc", <<"rust">>, 2, t, 0, 0,
                            TRUE).res = TransferFailed


(***************************************************************************)
(* C12.  A bounty's assigned_developer is absent from creation until the   *)
(* first successful assign_bounty, which sets it to the calling developer; *)
(* after that no operation (a later assign_bounty by another developer,    *)
(* dispute_bounty, cancel_bounty, register_developer) changes or clears    *)
(* it.                                                                     *)
(***************************************************************************)
C12_AssignedDeveloperSetOnce ==
    /\ [](\A i \in DOMAIN bounties, signer \in Addr, d \in Addr :
             LET r == assign_bounty(State, signer, i, d)
             IN  r.res = Ok
                     => /\ bounties[i].assigned_developer = None
                        /\ signer = d
                        /\ r.s.bounties[i].assigned_developer = d)
    /\ [][\A i \in DOMAIN bounties' :
             IF i \notin DOMAIN bounties
             THEN bounties'[i].assigned_developer = None
             ELSE LET old == bounties[i].assigned_developer
                      new == bounties'[i].assigned_developer
                  IN  /\ old # None => new = old
                      /\ old = None /\ new # None
                             => /\ bounties[i].status = Open
                                /\ bounties'[i].status = Assigned
                                /\ new \in DOMAIN developers
                                /\ developerBounties'[new]
                                       = Append(developerBounties[new], i)]_vars

\* A bounty assigned to d and since disputed, which another registered
\* developer tries to take, after d registered again.
C12_Witness ==
    \E i \in DOMAIN bounties, e \in DOMAIN developers :
        LET d == bounties[i].assigned_developer
        IN  /\ d # None /\ e # d
            /\ bounties[i].status = Disputed
            /\ d \in DOMAIN developers
            /\ assign_bounty(State, e, i, e).res = InvalidState
            /\ \E j \in DOMAIN bounties :
                  /\ bounties[j].assigned_developer = None
                  /\ bounties[j].status = Cancelled


(***************************************************************************)
(* C13.  Every developer profile's rating is between 0 and 100, whatever   *)
(* rating values callers pass to rate_developer, and the arithmetic        *)
(* old_rating * (n - 1) + rating never exceeds the 32-bit unsigned range.  *)
(* rate_developer stores what it is given without any range check, so a    *)
(* rating of 101 on a developer's only completed bounty is stored as 101:  *)
(* this is violated.                                                       *)
(***************************************************************************)
C13_RatingWithin100 ==
    \A d \in DOMAIN developers :
        LET n == developers[d].completed_bounties
        IN  /\ developers[d].rating \in 0..100
            /\ n > 0 => \A rating \in RegistryRatings :
                           /\ FitsU32(developers[d].rating * (n - 1))
                           /\ FitsU32(developers[d].rating * (n - 1) + rating)


(***************************************************************************)
(* C14.  Every successful rate_developer(bounty_id, company, rating) sets  *)
(* the assigned developer's rating to ((old_rating * (n - 1)) + rating)    *)
(* / n with integer division, n being that developer's completed_bounties, *)
(* and changes nothing else; one completed bounty rated 90 gives 90.       *)
(* As claimed, n >= 1 because the bounty is Completed: that part fails,    *)
(* since register_developer resets completed_bounties to 0 and the bounty  *)
(* stays Completed; rate_developer then stores the rating it is given.     *)
(***************************************************************************)
\* q is the integer quotient of x by n.
IsQuotient(q, x, n) == q * n <= x /\ x < (q + 1) * n

\* The successful ratings of bounty i by its company, each as the outcome r
\* with the developer d, the count n, the old rating and the rating given.
RatingHolds(P(_, _, _, _, _)) ==
    \A i \in DOMAIN bounties, rating \in RegistryRatings, overflowChecks \in BOOLEAN :
        LET c == bounties[i].company
            d == bounties[i].assigned_developer
            r == rate_developer(State, c, i, c, rating, overflowChecks)
        IN  r.res = Ok
                => P(r, d, developers[d].completed_bounties,
                     developers[d].rating, rating)

MeanOfN(r, d, n, old, rating) ==
    /\ n >= 1
    /\ IsQuotient(r.s.developers[d].rating, old * (n - 1) + rating, n)
    /\ r.s = [State EXCEPT !.developers[d].rating = r.s.developers[d].rating]

MeanOfNOrGiven(r, d, n, old, rating) ==
    /\ n >= 1 /\ FitsU32(old * (n - 1) + rating)
           => IsQuotient(r.s.developers[d].rating, old * (n - 1) + rating, n)
    /\ n = 1 => r.s.developers[d].rating = rating
    /\ n = 0 => r.s.developers[d].rating = rating
    /\ r.s = [State EXCEPT !.developers[d].rating = r.s.developers[d].rating]

C14_RunningMeanAsClaimed == RatingHolds(MeanOfN)

C14_RunningMean == RatingHolds(MeanOfNOrGiven)

\* One completed bounty rated 90 has given its developer the rating 90,
\* while the developer of another Completed bounty registered again
\* (completed_bounties = 0) and can still be rated.
C14_Witness ==
    \E i, j \in DOMAIN bounties :
        LET d == bounties[i].assigned_developer
            e == bounties[j].assigned_developer
            c == bounties[j].company
        IN  /\ bounties[i].status = Completed
            /\ developers[d].completed_bounties = 1
            /\ developers[d].rating = 90
            /\ rateCalls = 1
            /\ bounties[j].status = Completed
            /\ developers[e].completed_bounties = 0
            /\ rate_developer(State, c, j, c, 101, TRUE).res = Ok


(***************************************************************************)
(* C15.  rate_developer is not idempotent: rating the same Completed       *)
(* bounty twice in succession changes the developer's stored rating both   *)
(* times.  As claimed this fails: with completed_bounties = 1 (or 0) the   *)
(* rating is set to the value given, so the second identical call changes  *)
(* nothing.  It holds once the developer has n >= 2 completed bounties and *)
(* the rating given exceeds the stored one by at least 2n.                 *)
(***************************************************************************)
\* Bounty i rated twice in succession by its company with the same rating:
\* P(n, old, first, second) for the count n, the rating before and the
\* ratings after the first and after the second call.
RatedTwice(P(_, _, _, _)) ==
    \A i \in DOMAIN bounties, rating \in RegistryRatings :
        LET c == bounties[i].company
            d == bounties[i].assigned_developer
            r1 == rate_developer(State, c, i, c, rating, TRUE)
            r2 == rate_developer(r1.s, c, i, c, rating, TRUE)
        IN  r1.res = Ok /\ r2.res = Ok
                => P(developers[d].completed_bounties, rating - developers[d].rating,
                     r1.s.developers[d].rating - developers[d].rating,
                     r2.s.developers[d].rating - r1.s.developers[d].rating)

ChangesBothTimes(n, above, firstChange, secondChange) ==
    firstChange # 0 /\ secondChange # 0

ChangesBothTimesFromTwo(n, above, firstChange, secondChange) ==
    /\ n <= 1 => secondChange = 0
    /\ n >= 2 /\ above >= 2 * n => firstChange # 0 /\ secondChange # 0

C15_NotIdempotentAsClaimed == RatedTwice(ChangesBothTimes)

C15_NotIdempotent == RatedTwice(ChangesBothTimesFromTwo)

\* A developer with two completed bounties and the rating 90 from an
\* earlier call: rating one of them 101 twice gives 95, then 98.
C15_Witness ==
    \E i \in DOMAIN bounties :
        LET c == bounties[i].company
            d == bounties[i].assigned_developer
            r1 == rate_developer(State, c, i, c, 101, TRUE)
            r2 == rate_developer(r1.s, c, i, c, 101, TRUE)
        IN  /\ bounties[i].status = Completed
            /\ developers[d].completed_bounties = 2
            /\ developers[d].rating = 90
            /\ rateCalls = 1
            /\ r1.s.developers[d].rating = 95
            /\ r2.s.developers[d].rating = 98


(***************************************************************************)
(* C16.  A developer's completed_bounties is increased by exactly 1 by     *)
(* each successful approve_and_release on a bounty assigned to that        *)
(* developer, and is increased by no other operation and for no other      *)
(* developer; a failed approve_and_release does not change it.             *)
(***************************************************************************)
CompletedOf(devs, d) == IF d \in DOMAIN devs THEN devs[d].completed_bounties ELSE 0

\* Every approve_and_release from the current state: a success adds one to
\* the assigned developer's count and leaves every other profile alone, a
\* failure leaves the registry as it was.
ApproveCountsOne ==
    \A i \in BountyIds, signer \in Addr, company \in Addr, tokenOk \in BOOLEAN :
        LET r == approve_and_release(State, signer, i, company, tokenOk)
        IN  IF r.res = Ok
            THEN LET d == bounties[i].assigned_developer
                 IN  r.s.developers =
                         [developers EXCEPT ![d].completed_bounties = developers[d].completed_bounties + 1]
            ELSE r.s.developers = developers

\* A step that raises a developer's count raises it by one and is the
\* release of a bounty assigned to that developer; a release raises it.
CountRaisedOnlyByRelease ==
    /\ \A d \in Addr :
           CompletedOf(developers', d) > CompletedOf(developers, d)
               => /\ CompletedOf(developers', d) = CompletedOf(developers, d) + 1
                  /\ \E i \in DOMAIN bounties :
                         /\ released'[i] = released[i] + 1
                         /\ bounties[i].assigned_developer = d
    /\ \A i \in DOMAIN bounties :
           released'[i] = released[i] + 1
               => LET d == bounties[i].assigned_developer
                  IN  CompletedOf(developers', d) = CompletedOf(developers, d) + 1

C16_CompletedCountsReleases == []ApproveCountsOne /\ [][CountRaisedOnlyByRelease]_vars

\* Both bounties released to the same developer, who now counts two.
C16_Witness ==
    \E d \in DOMAIN developers :
        /\ developers[d].completed_bounties = 2
        /\ \A i \in 1..2 : /\ i \in DOMAIN bounties
                           /\ bounties[i].assigned_developer = d
                           /\ released[i] = 1


(***************************************************************************)
(* C17.  register_developer(developer, skills, bio) followed by            *)
(* get_developer(developer) returns exactly the profile (developer,        *)
(* skills, bio, completed_bounties = 0, rating = 0), also when a profile   *)
(* already existed: re-registering resets completed_bounties and rating    *)
(* whatever the earlier approvals and ratings, and changes no bounty       *)
(* record or index.                                                        *)
(***************************************************************************)
\* Bios given to register_developer in the property: the one in the
\* registry and a different one.
OtherBios == RegistryBios \cup {"bio2"}

C17_RegisterThenGet ==
    \A d \in Addr, skills \in RegistrySkillLists, bio \in OtherBios :
        LET r == register_developer(State, d, d, skills, bio)
            g == get_developer(r.s, d)
        IN  /\ r.res = Ok
            /\ g.res = Ok
            /\ g.s = r.s
            /\ g.ret = [address |-> d, skills |-> skills, bio |-> bio,
                        completed_bounties |-> 0, rating |-> 0]
            /\ DOMAIN r.s.developers = DOMAIN developers \cup {d}
            /\ \A a \in DOMAIN developers \ {d} : r.s.developers[a] = developers[a]
            /\ r.s = [State EXCEPT !.developers = r.s.developers]

\* A developer whose bounty was released and who was rated holds a profile
\* without history: the registration came after the approval.
C17_Witness ==
    \E i \in DOMAIN bounties :
        LET d == bounties[i].assigned_developer
        IN  /\ bounties[i].status = Completed
            /\ released[i] = 1
            /\ rateCalls = 1
            /\ developers[d].completed_bounties = 0
            /\ developers[d].rating = 0
            /\ developers[d].skills = <<>>


(***************************************************************************)
(* C18.  update_skills(developer, skills) on a registered developer        *)
(* replaces only the skills field of that developer's profile: bio,        *)
(* completed_bounties, rating, every other profile, every bounty and index *)
(* are unchanged.  On a developer with no profile it fails and creates no  *)
(* profile.                                                                *)
(***************************************************************************)
\* Skill lists given to update_skills in the property.
OtherSkillLists == RegistrySkillLists \cup {<<"go", "rust">>}

C18_UpdateSkillsOnlySkills ==
    \A d \in Addr, skills \in OtherSkillLists :
        LET r == update_skills(State, d, d, skills)
        IN  IF d \in DOMAIN developers
            THEN /\ r.res = Ok
                 /\ DOMAIN r.s.developers = DOMAIN developers
                 /\ r.s.developers[d].skills = skills
                 /\ r.s.developers[d].address = developers[d].address
                 /\ r.s.developers[d].bio = developers[d].bio
                 /\ r.s.developers[d].completed_bounties = developers[d].completed_bounties
                 /\ r.s.developers[d].rating = developers[d].rating
                 /\ \A a \in DOMAIN developers \ {d} : r.s.developers[a] = developers[a]
                 /\ r.s = [State EXCEPT !.developers = r.s.developers]
            ELSE /\ r.res = NotRegistered
                 /\ r.s = State
                 /\ d \notin DOMAIN r.s.developers

\* A developer with one released bounty and the rating 90 changes skills
\* and keeps both, while the other address has no profile and gets none.
C18_Witness ==
    \E d \in DOMAIN developers :
        LET r == update_skills(State, d, d, <<>>)
        IN  /\ developers[d].skills = <<"rust">>
            /\ developers[d].completed_bounties = 1
            /\ developers[d].rating = 90
            /\ r.res = Ok
            /\ r.s.developers[d].skills = <<>>
            /\ r.s.developers[d].rating = 90
            /\ \E a \in Addr \ DOMAIN developers :
                   update_skills(State, a, a, <<>>).res = NotRegistered


(***************************************************************************)
(* C19.  In every reachable state a bounty whose status is Assigned,       *)
(* Submitted or Completed has an assigned developer, and that developer    *)
(* has a profile in the registry; so approve_and_release on a Submitted    *)
(* bounty never fails for lack of an assigned developer or of that         *)
(* developer's profile.  A bounty whose status is Open or Cancelled has no *)
(* assigned developer.                                                     *)
(***************************************************************************)
C19_AssignedDeveloperRegistered ==
    /\ \A i \in DOMAIN bounties :
           /\ bounties[i].status \in {Assigned, Submitted, Completed}
                  => /\ bounties[i].assigned_developer # None
                     /\ bounties[i].assigned_developer \in DOMAIN developers
           /\ bounties[i].status \in {Open, Cancelled}
                  => bounties[i].assigned_developer = None
    /\ \A i \in DOMAIN bounties, signer \in Addr, company \in Addr, tokenOk \in BOOLEAN :
           bounties[i].status = Submitted
               => approve_and_release(State, signer, i, company, tokenOk).res
                      \notin {NotAssigned, NotRegistered}

\* One bounty Submitted, whose approval by its company succeeds, and the
\* other Cancelled.
C19_Witness ==
    \E i, j \in DOMAIN bounties :
        /\ bounties[i].status = Submitted
        /\ bounties[i].assigned_developer \in DOMAIN developers
        /\ approve_and_release(State, bounties[i].company, i, bounties[i].company, TRUE).res = Ok
        /\ bounties[j].status = Cancelled
        /\ bounties[j].assigned_developer = None


(***************************************************************************)
(* C20.  The indexes are append-only and duplicate-free: in every          *)
(* reachable state CompanyBounties(c) is exactly the ids of the bounties   *)
(* whose company is c, in creation order, and DeveloperBounties(d) is      *)
(* exactly the ids of the bounties whose assigned_developer is d, in       *)
(* assignment order; no id appears twice in a list and no operation        *)
(* removes or reorders an entry.                                           *)
(***************************************************************************)
Ids(list) == {list[k] : k \in DOMAIN list}

NoDuplicates(list) == \A j, k \in DOMAIN list : j # k => list[j] # list[k]

\* Ids are handed out in creation order, so creation order is ascending.
Ascending(list) == \A j, k \in DOMAIN list : j < k => list[j] < list[k]

IndexesExact ==
    \A a \in Addr :
        /\ Ids(companyBounties[a]) = {i \in DOMAIN bounties : bounties[i].company = a}
        /\ Ascending(companyBounties[a])
        /\ Ids(developerBounties[a]) =
               {i \in DOMAIN bounties : bounties[i].assigned_developer = a}
        /\ NoDuplicates(developerBounties[a])

\* A step leaves a list as it is or pushes one id at its end: the id of the
\* bounty created for that company, or of the bounty assigned to that
\* developer, in this step.
IndexesAppendOnly ==
    \A a \in Addr :
        /\ \/ companyBounties'[a] = companyBounties[a]
           \/ /\ companyBounties'[a] = Append(companyBounties[a], counter + 1)
              /\ counter + 1 \notin DOMAIN bounties
              /\ counter + 1 \in DOMAIN bounties'
              /\ bounties'[counter + 1].company = a
        /\ \/ developerBounties'[a] = developerBounties[a]
           \/ \E i \in DOMAIN bounties :
                  /\ developerBounties'[a] = Append(developerBounties[a], i)
                  /\ bounties[i].assigned_developer = None
                  /\ bounties'[i].assigned_developer = a

C20_IndexesAppendOnlyExact == []IndexesExact /\ [][IndexesAppendOnly]_vars

\* One company created both bounties and one developer took the second
\* before the first.
C20_Witness ==
    \E c, d \in Addr :
        /\ companyBounties[c] = <<1, 2>>
        /\ developerBounties[d] = <<2, 1>>
        /\ bounties[1].assigned_developer = d
        /\ bounties[2].assigned_developer = d

====
